---- MODULE Spec2Model ----
\* State-machine model of the rotary_encoders driver (src/rotary_encoders.c):
\* the instance table, the three interrupt flag words, the public calls made
\* from the cooperative main loop, rotary_encoder_set_flags called from an
\* interrupt, and rotary_encoder_task as the sequence of its volatile accesses.
EXTENDS Integers, FiniteSets, Sequences, TLC

\* ---------------------------------------------------------------- constants

ROTARY_ENCODER_INSTANCES == 4

ROTARY_ENCODER_FLAG_CW == 1

ROTARY_ENCODER_FLAG_CCW == 2

ROTARY_ENCODER_FLAG_SW == 4

INT16_MIN == -32768

INT16_MAX == 32767

UINT8_MAX == 255

\* Half-width of the knob ranges the model hands to rotary_encoder_init.
KnobSpan == 1

\* ------------------------------------------------------------------- inputs

InstanceIndex == 0 .. (ROTARY_ENCODER_INSTANCES - 1)

FlagKinds == {ROTARY_ENCODER_FLAG_CW, ROTARY_ENCODER_FLAG_CCW, ROTARY_ENCODER_FLAG_SW}

\* <<min_value, max_value>> pairs given to init: one around zero, one ending at
\* INT16_MAX with room for a value strictly between its limits, one starting at
\* INT16_MIN, and one with min above max, which init accepts as it validates
\* neither.
KnobRanges ==
    { <<0 - KnobSpan, KnobSpan>>,
      <<INT16_MAX - KnobSpan - 1, INT16_MAX>>,
      <<INT16_MIN, INT16_MIN + KnobSpan>>,
      <<KnobSpan, 0 - KnobSpan>> }

\* Values given to set_knob_value: inside, just outside and far outside.
KnobInputs == {INT16_MIN, 0, KnobSpan + 1, INT16_MAX}

\* Flag arguments given to set_flags: the three kinds and one that is none.
FlagInputs == FlagKinds \cup {3}

\* Handles the single-encoder specifications call with: an encoder, an in-range
\* handle that is never initialised, the first out-of-range one and the last
\* value of uint8_t.
OneHandle == {0}

InvalidHandles == {ROTARY_ENCODER_INSTANCES - 1, ROTARY_ENCODER_INSTANCES, UINT8_MAX}

\* Handles of the two-encoder specification.
TwoHandles == {0, 1}

\* The <<min_value, max_value>> of the counted-signals specification.
ScenarioRange == <<0, 10>>

\* Most signals the counted-signals specification issues after an init, and
\* most it leaves undrained.
MaxSignals == 12

\* Most signals the repeated-signals specification issues after an init, and
\* most it leaves undrained.
MaxRepeat == 3

\* ------------------------------------------------------------------- state

VARIABLES
    instance_arr,              \* static rotary_encoder_t instance_arr[]
    rotary_encoder_cw_flags,   \* volatile uint32_t, one bit per instance
    rotary_encoder_ccw_flags,
    rotary_encoder_sw_flags,
    tmp_cw_flags,              \* locals of rotary_encoder_task
    tmp_ccw_flags,
    tmp_sw_flags,
    pc,                        \* position of the main loop inside the task
    last,                      \* the latest call: which, on what, and what it returned
    sig_owed,                  \* history: successful signals not yet in an applied snapshot
    sig_during,                \* history: successful signals since the running task began
    sig_start,                 \* history: the flag words when the running task began
    scen                       \* history: counts of signals and of drains, when switched on

vars == << instance_arr, rotary_encoder_cw_flags, rotary_encoder_ccw_flags,
           rotary_encoder_sw_flags, tmp_cw_flags, tmp_ccw_flags, tmp_sw_flags,
           pc, last, sig_owed, sig_during, sig_start, scen >>

flag_vars == << rotary_encoder_cw_flags, rotary_encoder_ccw_flags, rotary_encoder_sw_flags >>

task_vars == << tmp_cw_flags, tmp_ccw_flags, tmp_sw_flags, pc >>

hist_vars == << sig_owed, sig_during, sig_start, scen >>

\* ---------------------------------------------------------- pure operators

\* Mutant: the step computed in int and never narrowed to int16_t.
ToInt16_wide(x) == x

\* Conversion of an int result back to int16_t (two's complement).
ToInt16(x) == ((x - INT16_MIN) % 65536) + INT16_MIN

\* 1u << i
Shl1(i) == 2 ^ i

\* 0 != (mask & word), mask a single bit
TestBit(word, i) == (word \div Shl1(i)) % 2 = 1

\* Mutant: the bit assigned to the word instead of or-ed into it.
OrBit_assign(word, i) == Shl1(i)

\* Mutant: the bit added to the word instead of or-ed into it.
OrBit_add(word, i) == word + Shl1(i)

\* word | (1u << i)
OrBit(word, i) == IF TestBit(word, i) THEN word ELSE word + Shl1(i)

\* The instances whose bit is set in a flag word.
Bits(word) == {i \in InstanceIndex : TestBit(word, i)}

ZeroInstance ==
    [ b_initialized          |-> FALSE,
      knob_value             |-> 0,
      knob_max_value         |-> 0,
      knob_min_value         |-> 0,
      b_knob_allow_step_on   |-> FALSE,
      b_knob_cw_rot_positive |-> FALSE,
      switch_value           |-> 0,
      b_event_occured        |-> FALSE,
      b_alert_occured        |-> FALSE ]

\* The read instance_arr[instance_num].b_initialized; past the end of the
\* table the byte read is whatever lies there (garbage).
ReadInitialized(arr, instance_num, garbage) ==
    IF instance_num \in DOMAIN arr THEN arr[instance_num].b_initialized ELSE garbage

\* Whether a call with this handle indexes the table past its end.
OutOfTable(instance_num) == ~(ROTARY_ENCODER_INSTANCES > instance_num)

\* Mutant: the b_initialized test of line 380 left out.
initialized_range_only(arr, instance_num, garbage) ==
    ROTARY_ENCODER_INSTANCES > instance_num

rotary_encoder_initialized(arr, instance_num, garbage) ==
    (ROTARY_ENCODER_INSTANCES > instance_num) /\ ReadInitialized(arr, instance_num, garbage)

\* Mutant: force_bounds that tests the upper bound only.
force_bounds_above_only(r) ==
    LET value       == r.knob_value
        b_above_max == value > r.knob_max_value
        forced      == IF r.b_knob_allow_step_on THEN r.knob_max_value ELSE r.knob_min_value
    IN  [ r EXCEPT !.knob_value      = IF b_above_max THEN forced ELSE value,
                   !.b_alert_occured = b_above_max ]

\* Mutant: force_bounds that ors the fresh result into b_alert_occured.
force_bounds_alert_latched(r) ==
    LET value       == r.knob_value
        b_above_max == value > r.knob_max_value
        b_below_min == value < r.knob_min_value
        stepped1    == IF b_above_max THEN r.knob_max_value ELSE value
        stepped2    == IF b_below_min THEN r.knob_min_value ELSE stepped1
        rolled1     == IF b_above_max THEN r.knob_min_value ELSE value
        rolled2     == IF b_below_min THEN r.knob_max_value ELSE rolled1
        forced      == IF r.b_knob_allow_step_on THEN stepped2 ELSE rolled2
    IN  [ r EXCEPT !.knob_value      = IF b_above_max \/ b_below_min THEN forced ELSE value,
                   !.b_alert_occured = (r.b_alert_occured \/ b_above_max \/ b_below_min) ]

\* Mutant: a rollover that carries the overshoot past the opposite limit.
force_bounds_carry_overshoot(r) ==
    LET value       == r.knob_value
        b_above_max == value > r.knob_max_value
        b_below_min == value < r.knob_min_value
        stepped1    == IF b_above_max THEN r.knob_max_value ELSE value
        stepped2    == IF b_below_min THEN r.knob_min_value ELSE stepped1
        rolled1     == IF b_above_max
                       THEN r.knob_min_value + (value - r.knob_max_value - 1)
                       ELSE value
        rolled2     == IF b_below_min
                       THEN r.knob_max_value - (r.knob_min_value - value - 1)
                       ELSE rolled1
        forced      == IF r.b_knob_allow_step_on THEN stepped2 ELSE rolled2
    IN  [ r EXCEPT !.knob_value      = IF b_above_max \/ b_below_min THEN forced ELSE value,
                   !.b_alert_occured = (b_above_max \/ b_below_min) ]

\* The record after rotary_encoder_force_bounds ran on it.
rotary_encoder_force_bounds(r) ==
    LET value       == r.knob_value
        b_above_max == value > r.knob_max_value
        b_below_min == value < r.knob_min_value
        stepped1    == IF b_above_max THEN r.knob_max_value ELSE value
        stepped2    == IF b_below_min THEN r.knob_min_value ELSE stepped1
        rolled1     == IF b_above_max THEN r.knob_min_value ELSE value
        rolled2     == IF b_below_min THEN r.knob_max_value ELSE rolled1
        forced      == IF r.b_knob_allow_step_on THEN stepped2 ELSE rolled2
    IN  [ r EXCEPT !.knob_value      = IF b_above_max \/ b_below_min THEN forced ELSE value,
                   !.b_alert_occured = (b_above_max \/ b_below_min) ]

\* The table after a successful body of set/inc/dec_knob_value: the store to
\* knob_value followed by force_bounds.
knob_store(arr, i, value) ==
    [arr EXCEPT ![i] = rotary_encoder_force_bounds([arr[i] EXCEPT !.knob_value = value])]

\* ++instance_arr[i].knob_value; force_bounds(i)   (guarded by initialized)
inc_knob_value(arr, i) ==
    IF rotary_encoder_initialized(arr, i, FALSE)
    THEN knob_store(arr, i, ToInt16(arr[i].knob_value + 1))
    ELSE arr

\* --instance_arr[i].knob_value; force_bounds(i)   (guarded by initialized)
dec_knob_value(arr, i) ==
    IF rotary_encoder_initialized(arr, i, FALSE)
    THEN knob_store(arr, i, ToInt16(arr[i].knob_value - 1))
    ELSE arr

\* Mutant: the toggle followed by force_bounds as in the knob calls.
tog_switch_value_force_bounds(arr, i) ==
    IF rotary_encoder_initialized(arr, i, FALSE)
    THEN [arr EXCEPT ![i] = rotary_encoder_force_bounds(
                               [arr[i] EXCEPT !.switch_value =
                                   IF arr[i].switch_value = 0 THEN 1 ELSE 0])]
    ELSE arr

\* switch_value = !switch_value   (guarded by initialized)
tog_switch_value(arr, i) ==
    IF rotary_encoder_initialized(arr, i, FALSE)
    THEN [arr EXCEPT ![i].switch_value = IF arr[i].switch_value = 0 THEN 1 ELSE 0]
    ELSE arr

\* b_tmp_cw_pos ? inc_knob_value(i) : dec_knob_value(i)   (clockwise flag)
task_on_cw(arr, i, b_tmp_cw_pos) ==
    IF b_tmp_cw_pos THEN inc_knob_value(arr, i) ELSE dec_knob_value(arr, i)

\* Mutant: the counter-clockwise flag handled without looking at the direction
\* setting.
task_on_ccw_always_dec(arr, i, b_tmp_cw_pos) ==
    dec_knob_value(arr, i)

\* b_tmp_cw_pos ? dec_knob_value(i) : inc_knob_value(i)   (counter-clockwise flag)
task_on_ccw(arr, i, b_tmp_cw_pos) ==
    IF b_tmp_cw_pos THEN dec_knob_value(arr, i) ELSE inc_knob_value(arr, i)

\* Mutant: the event latch set only when the knob or the switch changed.
task_body_event_on_change(arr, i, cw, ccw, sw) ==
    LET b_tmp_cw_pos == arr[i].b_knob_cw_rot_positive
        a1           == IF TestBit(cw, i) THEN task_on_cw(arr, i, b_tmp_cw_pos) ELSE arr
        a2           == IF TestBit(ccw, i) THEN task_on_ccw(a1, i, b_tmp_cw_pos) ELSE a1
        a3           == IF TestBit(sw, i) THEN tog_switch_value(a2, i) ELSE a2
    IN  IF a3[i] # arr[i] THEN [a3 EXCEPT ![i].b_event_occured = TRUE] ELSE arr

\* Mutant: the flag words tested as a whole instead of at bit i.
task_body_any_bit(arr, i, cw, ccw, sw) ==
    LET b_tmp_cw_pos == arr[i].b_knob_cw_rot_positive
        a1           == IF cw # 0 THEN task_on_cw(arr, i, b_tmp_cw_pos) ELSE arr
        a2           == IF ccw # 0 THEN task_on_ccw(a1, i, b_tmp_cw_pos) ELSE a1
        a3           == IF sw # 0 THEN tog_switch_value(a2, i) ELSE a2
    IN  IF (cw # 0 \/ ccw # 0 \/ sw # 0) /\ rotary_encoder_initialized(arr, i, FALSE)
        THEN [a3 EXCEPT ![i].b_event_occured = TRUE]
        ELSE arr

\* One iteration of the task's for loop.
task_body(arr, i, cw, ccw, sw) ==
    LET b_increment  == TestBit(cw, i)
        b_decrement  == TestBit(ccw, i)
        b_switch     == TestBit(sw, i)
        b_event      == b_increment \/ b_decrement \/ b_switch
        b_tmp_cw_pos == arr[i].b_knob_cw_rot_positive
        a1           == IF b_increment THEN task_on_cw(arr, i, b_tmp_cw_pos) ELSE arr
        a2           == IF b_decrement THEN task_on_ccw(a1, i, b_tmp_cw_pos) ELSE a1
        a3           == IF b_switch THEN tog_switch_value(a2, i) ELSE a2
    IN  IF b_event /\ rotary_encoder_initialized(arr, i, FALSE)
        THEN [a3 EXCEPT ![i].b_event_occured = TRUE]
        ELSE arr

\* for(i = from; i < ROTARY_ENCODER_INSTANCES; i++)
RECURSIVE task_loop(_, _, _, _, _)
task_loop(arr, from, cw, ccw, sw) ==
    IF from < ROTARY_ENCODER_INSTANCES
    THEN task_loop(task_body(arr, from, cw, ccw, sw), from + 1, cw, ccw, sw)
    ELSE arr

NoFlags == [k \in FlagKinds |-> 0]

\* The record of a call: which, on which handle, what it returned (bool as
\* 0/1), whether it indexed the table past its end, as arg the value of
\* set_knob_value, the stepped value inc/dec_knob_value stored before
\* force_bounds ran (0 when it stored none) or the flag of set_flags, and for a
\* returned task the snapshot it applied and the flag words it found when it
\* began.
Returned(op, h, ret, oob) ==
    [op |-> op, h |-> h, ret |-> ret, oob |-> oob, arg |-> 0,
     snap |-> NoFlags, start |-> NoFlags]

\* What the byte read as b_initialized can be: the table's own inside the
\* table, anything past its end.
Garbage(instance_num) == IF OutOfTable(instance_num) THEN BOOLEAN ELSE {FALSE}

B2I(b) == IF b THEN 1 ELSE 0

NoSignals == [k \in FlagKinds |-> {}]

\* The signal and drain counts: sigs, the successful signals since the latest
\* init; pend, those since the latest task began; drains, the tasks returned
\* since the latest init that began with such a signal outstanding. They stay
\* at zero unless switched on.
Counts(on) == [on |-> on, sigs |-> 0, pend |-> 0, drains |-> 0]

\* --------------------------------------------------------------------- Init

Construction ==
    /\ instance_arr = [i \in InstanceIndex |-> ZeroInstance]
    /\ rotary_encoder_cw_flags = 0
    /\ rotary_encoder_ccw_flags = 0
    /\ rotary_encoder_sw_flags = 0
    /\ tmp_cw_flags = 0
    /\ tmp_ccw_flags = 0
    /\ tmp_sw_flags = 0
    /\ pc = "idle"
    /\ last = Returned("none", 0, 0, FALSE)
    /\ sig_owed = NoSignals
    /\ sig_during = NoSignals
    /\ sig_start = NoFlags

Init == Construction /\ scen = Counts(FALSE)

\* The same start with the signals and drains counted.
InitScenario == Construction /\ scen = Counts(TRUE)

\* ------------------------------------------- calls made from the main loop

\* word & ~(1u << i)
ClearBit(word, i) == IF TestBit(word, i) THEN word - Shl1(i) ELSE word

\* Mutant: init that also drops the flag bits still pending for the instance.
init_clears_flags(instance_num, min_value, max_value, step_on, cw_rot_pos) ==
    /\ pc = "idle"
    /\ instance_arr' =
          IF ROTARY_ENCODER_INSTANCES > instance_num
          THEN [instance_arr EXCEPT ![instance_num] =
                  [ b_initialized          |-> TRUE,
                    knob_value             |-> 0,
                    knob_max_value         |-> max_value,
                    knob_min_value         |-> min_value,
                    b_knob_allow_step_on   |-> step_on,
                    b_knob_cw_rot_positive |-> cw_rot_pos,
                    switch_value           |-> 0,
                    b_event_occured        |-> FALSE,
                    b_alert_occured        |-> FALSE ]]
          ELSE instance_arr
    /\ last' = Returned("init", instance_num,
                        B2I(ROTARY_ENCODER_INSTANCES > instance_num), FALSE)
    /\ scen' = [scen EXCEPT !.sigs = 0, !.drains = 0]
    /\ rotary_encoder_cw_flags' = ClearBit(rotary_encoder_cw_flags, instance_num)
    /\ rotary_encoder_ccw_flags' = ClearBit(rotary_encoder_ccw_flags, instance_num)
    /\ rotary_encoder_sw_flags' = ClearBit(rotary_encoder_sw_flags, instance_num)
    /\ UNCHANGED << task_vars, sig_owed, sig_during, sig_start >>

rotary_encoder_init(instance_num, min_value, max_value, step_on, cw_rot_pos) ==
    /\ pc = "idle"
    /\ instance_arr' =
          IF ROTARY_ENCODER_INSTANCES > instance_num
          THEN [instance_arr EXCEPT ![instance_num] =
                  [ b_initialized          |-> TRUE,
                    knob_value             |-> 0,
                    knob_max_value         |-> max_value,
                    knob_min_value         |-> min_value,
                    b_knob_allow_step_on   |-> step_on,
                    b_knob_cw_rot_positive |-> cw_rot_pos,
                    switch_value           |-> 0,
                    b_event_occured        |-> FALSE,
                    b_alert_occured        |-> FALSE ]]
          ELSE instance_arr
    /\ last' = Returned("init", instance_num,
                        B2I(ROTARY_ENCODER_INSTANCES > instance_num), FALSE)
    /\ scen' = [scen EXCEPT !.sigs = 0, !.drains = 0]
    /\ UNCHANGED << flag_vars, task_vars, sig_owed, sig_during, sig_start >>

rotary_encoder_get_knob_value(instance_num, garbage) ==
    /\ pc = "idle"
    /\ last' = Returned("get_knob", instance_num,
                        IF rotary_encoder_initialized(instance_arr, instance_num, garbage)
                        THEN instance_arr[instance_num].knob_value
                        ELSE 0,
                        OutOfTable(instance_num))
    /\ UNCHANGED << instance_arr, flag_vars, task_vars, hist_vars >>

rotary_encoder_get_switch_value(instance_num, garbage) ==
    /\ pc = "idle"
    /\ last' = Returned("get_switch", instance_num,
                        IF rotary_encoder_initialized(instance_arr, instance_num, garbage)
                        THEN B2I(instance_arr[instance_num].switch_value # 0)
                        ELSE 0,
                        OutOfTable(instance_num))
    /\ UNCHANGED << instance_arr, flag_vars, task_vars, hist_vars >>

rotary_encoder_set_knob_value(instance_num, value, garbage) ==
    /\ pc = "idle"
    /\ LET ok == rotary_encoder_initialized(instance_arr, instance_num, garbage)
       IN  /\ instance_arr' = IF ok THEN knob_store(instance_arr, instance_num, value)
                                    ELSE instance_arr
           /\ last' = [Returned("set_knob", instance_num, B2I(ok), OutOfTable(instance_num))
                          EXCEPT !.arg = value]
    /\ UNCHANGED << flag_vars, task_vars, hist_vars >>

rotary_encoder_inc_knob_value(instance_num, garbage) ==
    /\ pc = "idle"
    /\ LET ok == rotary_encoder_initialized(instance_arr, instance_num, garbage)
       IN  /\ instance_arr' = IF ok THEN inc_knob_value(instance_arr, instance_num)
                                    ELSE instance_arr
           /\ last' = [Returned("inc_knob", instance_num, B2I(ok), OutOfTable(instance_num))
                          EXCEPT !.arg = IF ok
                                         THEN ToInt16(instance_arr[instance_num].knob_value + 1)
                                         ELSE 0]
    /\ UNCHANGED << flag_vars, task_vars, hist_vars >>

rotary_encoder_dec_knob_value(instance_num, garbage) ==
    /\ pc = "idle"
    /\ LET ok == rotary_encoder_initialized(instance_arr, instance_num, garbage)
       IN  /\ instance_arr' = IF ok THEN dec_knob_value(instance_arr, instance_num)
                                    ELSE instance_arr
           /\ last' = [Returned("dec_knob", instance_num, B2I(ok), OutOfTable(instance_num))
                          EXCEPT !.arg = IF ok
                                         THEN ToInt16(instance_arr[instance_num].knob_value - 1)
                                         ELSE 0]
    /\ UNCHANGED << flag_vars, task_vars, hist_vars >>

rotary_encoder_tog_switch_value(instance_num, garbage) ==
    /\ pc = "idle"
    /\ LET ok == rotary_encoder_initialized(instance_arr, instance_num, garbage)
       IN  /\ instance_arr' = IF ok THEN tog_switch_value(instance_arr, instance_num)
                                    ELSE instance_arr
           /\ last' = Returned("tog_switch", instance_num, B2I(ok), OutOfTable(instance_num))
    /\ UNCHANGED << flag_vars, task_vars, hist_vars >>

\* Mutant: check_event that reads the latch and leaves it set.
check_event_no_clear(instance_num, garbage) ==
    /\ pc = "idle"
    /\ last' = Returned("check_event", instance_num,
                        B2I(rotary_encoder_initialized(instance_arr, instance_num, garbage)
                            /\ instance_arr[instance_num].b_event_occured),
                        OutOfTable(instance_num))
    /\ UNCHANGED << instance_arr, flag_vars, task_vars, hist_vars >>

rotary_encoder_check_event(instance_num, garbage) ==
    /\ pc = "idle"
    /\ LET ok == rotary_encoder_initialized(instance_arr, instance_num, garbage)
       IN  /\ instance_arr' =
                 IF ok THEN [instance_arr EXCEPT ![instance_num].b_event_occured = FALSE]
                       ELSE instance_arr
           /\ last' = Returned("check_event", instance_num,
                               B2I(ok /\ instance_arr[instance_num].b_event_occured),
                               OutOfTable(instance_num))
    /\ UNCHANGED << flag_vars, task_vars, hist_vars >>

rotary_encoder_check_alert(instance_num, garbage) ==
    /\ pc = "idle"
    /\ LET ok == rotary_encoder_initialized(instance_arr, instance_num, garbage)
       IN  /\ instance_arr' =
                 IF ok THEN [instance_arr EXCEPT ![instance_num].b_alert_occured = FALSE]
                       ELSE instance_arr
           /\ last' = Returned("check_alert", instance_num,
                               B2I(ok /\ instance_arr[instance_num].b_alert_occured),
                               OutOfTable(instance_num))
    /\ UNCHANGED << flag_vars, task_vars, hist_vars >>

\* ------------------------------------------------- the interrupt-side call

\* The whole of rotary_encoder_set_flags: an interrupt handler is not
\* preempted by the main loop, so its read-modify-write is one step.
rotary_encoder_set_flags(instance_num, flag, garbage) ==
    LET ok     == rotary_encoder_initialized(instance_arr, instance_num, garbage)
        is_set == ok /\ flag \in FlagKinds
    IN  /\ rotary_encoder_cw_flags' =
              IF ok /\ ROTARY_ENCODER_FLAG_CW = flag
              THEN OrBit(rotary_encoder_cw_flags, instance_num)
              ELSE rotary_encoder_cw_flags
        /\ rotary_encoder_ccw_flags' =
              IF ok /\ ROTARY_ENCODER_FLAG_CCW = flag
              THEN OrBit(rotary_encoder_ccw_flags, instance_num)
              ELSE rotary_encoder_ccw_flags
        /\ rotary_encoder_sw_flags' =
              IF ok /\ ROTARY_ENCODER_FLAG_SW = flag
              THEN OrBit(rotary_encoder_sw_flags, instance_num)
              ELSE rotary_encoder_sw_flags
        /\ last' = [Returned("set_flags", instance_num, B2I(is_set), OutOfTable(instance_num))
                       EXCEPT !.arg = flag]
        /\ sig_owed' = IF is_set THEN [sig_owed EXCEPT ![flag] = @ \cup {instance_num}]
                                 ELSE sig_owed
        /\ sig_during' = IF is_set /\ pc # "idle"
                         THEN [sig_during EXCEPT ![flag] = @ \cup {instance_num}]
                         ELSE sig_during
        /\ scen' = IF is_set /\ scen.on
                   THEN [scen EXCEPT !.sigs = @ + 1, !.pend = @ + 1]
                   ELSE scen
        /\ UNCHANGED << instance_arr, task_vars, sig_start >>

\* set_flags called from the main loop ("to trigger an event manually").
set_flags_from_main(instance_num, flag, garbage) ==
    /\ pc = "idle"
    /\ rotary_encoder_set_flags(instance_num, flag, garbage)

\* set_flags called from an interrupt, which may arrive at any point of the
\* main loop, the task's statements included.
set_flags_from_isr(instance_num, flag, garbage) ==
    rotary_encoder_set_flags(instance_num, flag, garbage)

\* ------------------------------------------------------ rotary_encoder_task
\* One step per volatile access; pc names the line the main loop is about to
\* execute.

\* Three flag words as one function of the flag kind.
TaskSnapshot(cw, ccw, sw) ==
    [k \in FlagKinds |->
        IF k = ROTARY_ENCODER_FLAG_CW THEN cw
        ELSE IF k = ROTARY_ENCODER_FLAG_CCW THEN ccw
        ELSE sw]

task_read_cw ==
    /\ pc = "idle"
    /\ tmp_cw_flags' = rotary_encoder_cw_flags
    /\ pc' = "L274"
    /\ sig_start' = TaskSnapshot(rotary_encoder_cw_flags, rotary_encoder_ccw_flags,
                                 rotary_encoder_sw_flags)
    /\ sig_during' = NoSignals
    /\ last' = Returned("task", 0, 0, FALSE)
    /\ UNCHANGED << instance_arr, flag_vars, tmp_ccw_flags, tmp_sw_flags, sig_owed,
                    scen >>

task_read_ccw ==
    /\ pc = "L274"
    /\ tmp_ccw_flags' = rotary_encoder_ccw_flags
    /\ pc' = "L275"
    /\ UNCHANGED << instance_arr, flag_vars, tmp_cw_flags, tmp_sw_flags, last, hist_vars >>

task_read_sw ==
    /\ pc = "L275"
    /\ tmp_sw_flags' = rotary_encoder_sw_flags
    /\ pc' = "L277"
    /\ UNCHANGED << instance_arr, flag_vars, tmp_cw_flags, tmp_ccw_flags, last, hist_vars >>

task_clear_cw ==
    /\ pc = "L277"
    /\ rotary_encoder_cw_flags' = 0
    /\ pc' = "L278"
    /\ UNCHANGED << instance_arr, rotary_encoder_ccw_flags, rotary_encoder_sw_flags,
                    tmp_cw_flags, tmp_ccw_flags, tmp_sw_flags, last, hist_vars >>

task_clear_ccw ==
    /\ pc = "L278"
    /\ rotary_encoder_ccw_flags' = 0
    /\ pc' = "L279"
    /\ UNCHANGED << instance_arr, rotary_encoder_cw_flags, rotary_encoder_sw_flags,
                    tmp_cw_flags, tmp_ccw_flags, tmp_sw_flags, last, hist_vars >>

task_clear_sw ==
    /\ pc = "L279"
    /\ rotary_encoder_sw_flags' = 0
    /\ pc' = "L282"
    /\ UNCHANGED << instance_arr, rotary_encoder_cw_flags, rotary_encoder_ccw_flags,
                    tmp_cw_flags, tmp_ccw_flags, tmp_sw_flags, last, hist_vars >>

\* The for loop and the return: it touches the locals and the table only, which
\* no interrupt writes, so it is one step. The locals die with the return.
task_apply ==
    /\ pc = "L282"
    /\ instance_arr' = task_loop(instance_arr, 0, tmp_cw_flags, tmp_ccw_flags, tmp_sw_flags)
    /\ last' = [Returned("task", 0, 0, FALSE) EXCEPT
                   !.snap  = TaskSnapshot(tmp_cw_flags, tmp_ccw_flags, tmp_sw_flags),
                   !.start = sig_start]
    /\ sig_owed' = [k \in FlagKinds |->
                       sig_owed[k] \ Bits(TaskSnapshot(tmp_cw_flags, tmp_ccw_flags,
                                                        tmp_sw_flags)[k])]
    /\ sig_during' = NoSignals
    /\ sig_start' = NoFlags
    /\ tmp_cw_flags' = 0
    /\ tmp_ccw_flags' = 0
    /\ tmp_sw_flags' = 0
    /\ pc' = "idle"
    /\ scen' = [scen EXCEPT !.pend = 0,
                            !.drains = IF scen.pend > 0 THEN @ + 1 ELSE @]
    /\ UNCHANGED flag_vars

rotary_encoder_task ==
    \/ task_read_cw
    \/ task_read_ccw
    \/ task_read_sw
    \/ task_clear_cw
    \/ task_clear_ccw
    \/ task_clear_sw
    \/ task_apply

\* ----------------------------------------------------------- specifications

\* The calls of the public interface: init on the handles HI, the others on
\* the handles H, with knob ranges R.
MainCalls(HI, H, R) ==
    \/ \E h \in HI, r \in R, step_on \in BOOLEAN, cw_rot_pos \in BOOLEAN :
          rotary_encoder_init(h, r[1], r[2], step_on, cw_rot_pos)
    \/ \E h \in H : \E g \in Garbage(h) : rotary_encoder_get_knob_value(h, g)
    \/ \E h \in H : \E g \in Garbage(h) : rotary_encoder_get_switch_value(h, g)
    \/ \E h \in H, v \in KnobInputs : \E g \in Garbage(h) : rotary_encoder_set_knob_value(h, v, g)
    \/ \E h \in H : \E g \in Garbage(h) : rotary_encoder_inc_knob_value(h, g)
    \/ \E h \in H : \E g \in Garbage(h) : rotary_encoder_dec_knob_value(h, g)
    \/ \E h \in H : \E g \in Garbage(h) : rotary_encoder_tog_switch_value(h, g)
    \/ \E h \in H : \E g \in Garbage(h) : rotary_encoder_check_event(h, g)
    \/ \E h \in H : \E g \in Garbage(h) : rotary_encoder_check_alert(h, g)

\* The first of the knob ranges, around zero.
SmallRange == { <<0 - KnobSpan, KnobSpan>> }

\* One encoder driven through the whole interface from the main loop, events
\* triggered between calls.
Next ==
    \/ MainCalls(OneHandle, OneHandle, KnobRanges)
    \/ \E h \in OneHandle, f \in FlagInputs : \E g \in Garbage(h) : set_flags_from_main(h, f, g)
    \/ rotary_encoder_task

Spec == Init /\ [][Next]_vars

\* The whole interface called with valid and invalid handles; the last entry
\* of the table is never initialised.
NextInvalid ==
    \/ MainCalls((OneHandle \cup InvalidHandles) \ {ROTARY_ENCODER_INSTANCES - 1},
                 OneHandle \cup InvalidHandles, SmallRange)
    \/ \E h \in OneHandle \cup InvalidHandles, f \in FlagInputs : \E g \in Garbage(h) :
          set_flags_from_main(h, f, g)
    \/ rotary_encoder_task

SpecInvalid == Init /\ [][NextInvalid]_vars

\* One encoder whose interrupts arrive at any point of the main loop.
NextIsr ==
    \/ \E h \in OneHandle, r \in SmallRange, step_on \in BOOLEAN, cw_rot_pos \in BOOLEAN :
          rotary_encoder_init(h, r[1], r[2], step_on, cw_rot_pos)
    \/ \E h \in OneHandle, f \in FlagKinds : \E g \in Garbage(h) : set_flags_from_isr(h, f, g)
    \/ \E h \in OneHandle : \E g \in Garbage(h) : rotary_encoder_check_event(h, g)
    \/ rotary_encoder_task

SpecIsr == Init /\ [][NextIsr]_vars

\* Two encoders side by side, both turning clockwise-positive.
NextTwo ==
    \/ \E h \in TwoHandles, r \in SmallRange, step_on \in BOOLEAN :
          rotary_encoder_init(h, r[1], r[2], step_on, TRUE)
    \/ \E h \in TwoHandles, f \in FlagKinds : \E g \in Garbage(h) : set_flags_from_main(h, f, g)
    \/ rotary_encoder_task

SpecTwo == Init /\ [][NextTwo]_vars

\* One clockwise-positive encoder on ScenarioRange, its clockwise signals and
\* the drains counted: signals from the main loop between runs of the task.
NextScenario ==
    \/ \E step_on \in BOOLEAN :
          rotary_encoder_init(0, ScenarioRange[1], ScenarioRange[2], step_on, TRUE)
    \/ /\ scen.sigs < MaxSignals
       /\ scen.pend < MaxSignals
       /\ set_flags_from_main(0, ROTARY_ENCODER_FLAG_CW, FALSE)
    \/ rotary_encoder_task

SpecScenario == InitScenario /\ [][NextScenario]_vars

\* One clockwise-positive encoder on the range around zero, signalled from the
\* main loop with every kind of flag, up to MaxRepeat times after an init and
\* between two runs of the task, the signals counted.
NextRepeat ==
    \/ \E r \in SmallRange, step_on \in BOOLEAN :
          rotary_encoder_init(0, r[1], r[2], step_on, TRUE)
    \/ /\ scen.sigs < MaxRepeat
       /\ scen.pend < MaxRepeat
       /\ \E f \in FlagKinds : set_flags_from_main(0, f, FALSE)
    \/ rotary_encoder_task

SpecRepeat == InitScenario /\ [][NextRepeat]_vars

\* ------------------------------------------------------------------- claims

FlagWord(k) ==
    TaskSnapshot(rotary_encoder_cw_flags, rotary_encoder_ccw_flags, rotary_encoder_sw_flags)[k]

\* The latest call was a successful knob mutation of instance i: a direct
\* set/inc/dec, or a returned task whose snapshot held a rotation bit of i.
KnobJustMutated(i) ==
    \/ last.op \in {"set_knob", "inc_knob", "dec_knob"} /\ last.h = i /\ last.ret = 1
    \/ /\ last.op = "task"
       /\ pc = "idle"
       /\ i \in Bits(last.snap[ROTARY_ENCODER_FLAG_CW]) \cup Bits(last.snap[ROTARY_ENCODER_FLAG_CCW])

WithinBounds(r) == r.knob_min_value <= r.knob_value /\ r.knob_value <= r.knob_max_value

\* C1: on an initialised instance configured with min <= max, after every
\* set_knob, inc_knob or dec_knob (called directly or by the task for a
\* rotation flag) min <= knob_value <= max, under clamp and under wrap.
C1_BoundsAfterKnobCall ==
    \A i \in InstanceIndex :
        ( /\ instance_arr[i].b_initialized
          /\ instance_arr[i].knob_min_value <= instance_arr[i].knob_max_value
          /\ KnobJustMutated(i) )
        => WithinBounds(instance_arr[i])

\* C1 witness: an increment at the upper limit under clamp has just returned,
\* with the value held at max and the alert raised.
C1_Witness ==
    /\ last.op = "inc_knob" /\ last.h = 0 /\ last.ret = 1
    /\ instance_arr[0].b_knob_allow_step_on
    /\ instance_arr[0].b_alert_occured
    /\ instance_arr[0].knob_min_value < instance_arr[0].knob_max_value
    /\ instance_arr[0].knob_value = instance_arr[0].knob_max_value

\* C2: no successful signal is lost to the drain: whenever the task is not
\* running, every signalled bit that no applied snapshot contained is still set
\* in its flag word.
C2_NoSignalLost ==
    pc = "idle" => \A k \in FlagKinds : sig_owed[k] \subseteq Bits(FlagWord(k))

\* The knob value one step d from r's, by the bounds policy as the
\* specification states it for min <= max.
SteppedValue(r, d) ==
    LET v == ToInt16(r.knob_value + d)
    IN  IF v > r.knob_max_value
        THEN (IF r.b_knob_allow_step_on THEN r.knob_max_value ELSE r.knob_min_value)
        ELSE IF v < r.knob_min_value
        THEN (IF r.b_knob_allow_step_on THEN r.knob_min_value ELSE r.knob_max_value)
        ELSE v

CwStep(r) == IF r.b_knob_cw_rot_positive THEN 1 ELSE -1

\* The step in which the task applies its snapshot and returns.
TaskReturns == pc = "L282" /\ pc' = "idle"

C4_ClampHoldsAtLimit ==
    [][ \A h \in InstanceIndex :
          LET r  == instance_arr[h]
              r2 == instance_arr'[h]
          IN  ( /\ r.b_initialized
                /\ r.b_knob_allow_step_on
                /\ r.knob_min_value <= r.knob_max_value
                /\ last'.h = h )
              =>
              /\ (last'.op = "inc_knob" /\ r.knob_value = r.knob_max_value)
                    => (r2.knob_value = r.knob_max_value /\ r2.b_alert_occured)
              /\ (last'.op = "dec_knob" /\ r.knob_value = r.knob_min_value)
                    => (r2.knob_value = r.knob_min_value /\ r2.b_alert_occured)
              /\ last'.op = "check_alert"
                    => (last'.ret = B2I(r.b_alert_occured) /\ ~r2.b_alert_occured)
      ]_vars

\* C5: under wrap (min <= max) an increment at max yields min and a decrement
\* at min yields max.
C5_WrapToOppositeLimit ==
    [][ \A h \in InstanceIndex :
          LET r  == instance_arr[h]
              r2 == instance_arr'[h]
          IN  ( /\ r.b_initialized
                /\ ~r.b_knob_allow_step_on
                /\ r.knob_min_value <= r.knob_max_value
                /\ last'.h = h )
              =>
              /\ (last'.op = "inc_knob" /\ r.knob_value = r.knob_max_value)
                    => r2.knob_value = r.knob_min_value
              /\ (last'.op = "dec_knob" /\ r.knob_value = r.knob_min_value)
                    => r2.knob_value = r.knob_max_value
      ]_vars

\* C6: in the task a drained clockwise bit applies inc_knob_value when
\* b_knob_cw_rot_positive and dec_knob_value otherwise; a drained
\* counter-clockwise bit applies the mirrored call.
C6_DirectionMapping ==
    [][ TaskReturns =>
          \A h \in InstanceIndex :
            LET r   == instance_arr[h]
                r2  == instance_arr'[h]
                cw  == TestBit(tmp_cw_flags, h)
                ccw == TestBit(tmp_ccw_flags, h)
                up  == inc_knob_value(instance_arr, h)[h]
                dn  == dec_knob_value(instance_arr, h)[h]
                SameKnob(a, b) == /\ a.knob_value = b.knob_value
                                  /\ a.b_alert_occured = b.b_alert_occured
            IN  r.b_initialized =>
                  /\ (cw /\ ~ccw) =>
                        SameKnob(r2, IF r.b_knob_cw_rot_positive THEN up ELSE dn)
                  /\ (ccw /\ ~cw) =>
                        SameKnob(r2, IF r.b_knob_cw_rot_positive THEN dn ELSE up)
      ]_vars

\* C6 witness: with clockwise negative, the task has applied one
\* counter-clockwise signal and the knob went from 0 to +1 inside the range.
C6_Witness ==
    /\ pc = "idle" /\ last.op = "task"
    /\ Bits(last.snap[ROTARY_ENCODER_FLAG_CCW]) = {0}
    /\ Bits(last.snap[ROTARY_ENCODER_FLAG_CW]) = {}
    /\ ~instance_arr[0].b_knob_cw_rot_positive
    /\ instance_arr[0].knob_min_value = 0 - KnobSpan
    /\ instance_arr[0].knob_max_value = KnobSpan
    /\ instance_arr[0].knob_value = 1
    /\ ~instance_arr[0].b_alert_occured

\* C7 as stated: after any successful direct mutation the event latch is set
\* (so that the next check_event returns true).
C7_EventAfterAnyMutation ==
    (last.op \in {"set_knob", "inc_knob", "dec_knob", "tog_switch"} /\ last.ret = 1)
    => instance_arr[last.h].b_event_occured

\* C7 amended: the task sets the event latch of every initialised instance it
\* applies a drained signal to; check_event returns the latch and clears it, so
\* the first call after such a task returns true and an immediate second one
\* false; the direct mutators leave the latch as it is.
C7_EventLatchSetByTaskOnly ==
    [][ /\ TaskReturns =>
             \A h \in InstanceIndex :
                 ( /\ instance_arr[h].b_initialized
                   /\ \/ TestBit(tmp_cw_flags, h)
                      \/ TestBit(tmp_ccw_flags, h)
                      \/ TestBit(tmp_sw_flags, h) )
                 => instance_arr'[h].b_event_occured
        /\ \A h \in InstanceIndex :
             (instance_arr[h].b_initialized /\ last'.h = h) =>
                /\ last'.op = "check_event" =>
                      /\ last'.ret = B2I(instance_arr[h].b_event_occured)
                      /\ ~instance_arr'[h].b_event_occured
                /\ last'.op \in {"set_knob", "inc_knob", "dec_knob", "tog_switch"} =>
                      /\ last'.ret = 1
                      /\ instance_arr'[h].b_event_occured = instance_arr[h].b_event_occured
      ]_vars

\* C7 witness: the first check_event after the task applied a signal has
\* returned true and left the latch clear.
C7_Witness ==
    /\ last.op = "check_event" /\ last.h = 0 /\ last.ret = 1
    /\ instance_arr[0].b_initialized
    /\ ~instance_arr[0].b_event_occured

\* C8: a signal changes no instance record and no bit of another instance, and
\* the task leaves the record of every instance that has no bit in the
\* snapshot exactly as it was.
C8_Isolation ==
    [][ /\ TaskReturns =>
             \A b \in InstanceIndex :
                 ( /\ ~TestBit(tmp_cw_flags, b)
                   /\ ~TestBit(tmp_ccw_flags, b)
                   /\ ~TestBit(tmp_sw_flags, b) )
                 => instance_arr'[b] = instance_arr[b]
        /\ last'.op = "set_flags" =>
             /\ instance_arr' = instance_arr
             /\ \A k \in FlagKinds : \A b \in InstanceIndex \ {last'.h} :
                    TestBit(FlagWord(k)', b) = TestBit(FlagWord(k), b)
      ]_vars

\* C8 witness: the task has applied signals of encoder 0 only, while encoder 1
\* is initialised and shows no event.
C8_Witness ==
    /\ pc = "idle" /\ last.op = "task"
    /\ Bits(last.snap[ROTARY_ENCODER_FLAG_CW]) = {0}
    /\ Bits(last.snap[ROTARY_ENCODER_FLAG_CCW]) = {}
    /\ Bits(last.snap[ROTARY_ENCODER_FLAG_SW]) = {0}
    /\ instance_arr[0].b_event_occured
    /\ instance_arr[0].switch_value = 1
    /\ instance_arr[1].b_initialized
    /\ ~instance_arr[1].b_event_occured

\* The operations that go through rotary_encoder_initialized.
GuardedOps ==
    {"get_knob", "get_switch", "set_knob", "inc_knob", "dec_knob", "tog_switch",
     "check_event", "check_alert", "set_flags"}

InvalidHandle(h) == h >= ROTARY_ENCODER_INSTANCES \/ ~instance_arr[h].b_initialized

\* C9: a call with a handle past the table or never initialised returns 0 /
\* false / failure and changes no instance record and no flag bit.
C9_InvalidHandleNoEffect ==
    [][ (last'.op \in GuardedOps /\ InvalidHandle(last'.h)) =>
          /\ last'.ret = 0
          /\ instance_arr' = instance_arr
          /\ flag_vars' = flag_vars
      ]_vars

\* C9 witness: set_knob on handle 255 has returned failure while encoder 0 is
\* initialised with events pending.
C9_Witness ==
    /\ last.op = "set_knob" /\ last.h = UINT8_MAX /\ last.ret = 0
    /\ instance_arr[0].b_initialized
    /\ ~instance_arr[ROTARY_ENCODER_INSTANCES - 1].b_initialized
    /\ rotary_encoder_cw_flags # 0

\* C10: no call indexes the instance table at ROTARY_ENCODER_INSTANCES or
\* beyond.
C10_NoAccessPastTable == ~last.oob

Min(a, b) == IF a < b THEN a ELSE b

\* C11 as written: on ScenarioRange under clamp, MaxSignals clockwise signals
\* followed by one run of the task leave the knob at the upper limit with the
\* alert and the event latch set; under wrap, one signal fewer followed by one
\* run of the task leaves the knob at 0.
C11_OneStepPerSignal ==
    LET r == instance_arr[0]
    IN  ( /\ r.b_initialized
          /\ pc = "idle"
          /\ last.op = "task"
          /\ last.snap[ROTARY_ENCODER_FLAG_CW] # 0
          /\ scen.drains = 1 )
        => /\ (r.b_knob_allow_step_on /\ scen.sigs = MaxSignals)
                => /\ r.knob_value = ScenarioRange[2]
                   /\ r.b_alert_occured
                   /\ r.b_event_occured
           /\ (~r.b_knob_allow_step_on /\ scen.sigs = MaxSignals - 1)
                => r.knob_value = 0

\* C11 amended: the clockwise signals issued before a run of the task coalesce
\* into one step. After init on ScenarioRange the knob counts the drains, not
\* the signals: under clamp it is the lesser of the drain count and the upper
\* limit, with the alert set iff the count exceeds the limit; under wrap it is
\* the drain count modulo the width of the range, with the alert set iff the
\* latest drain wrapped; the event latch is set from the first drain on.
C11_OneStepPerDrain ==
    LET r     == instance_arr[0]
        hi    == ScenarioRange[2]
        width == ScenarioRange[2] - ScenarioRange[1] + 1
    IN  r.b_initialized =>
          /\ r.knob_value = IF r.b_knob_allow_step_on THEN Min(scen.drains, hi)
                                                      ELSE scen.drains % width
          /\ r.b_alert_occured = IF r.b_knob_allow_step_on
                                 THEN scen.drains > hi
                                 ELSE scen.drains > 0 /\ scen.drains % width = 0
          /\ r.b_event_occured = (scen.drains > 0)
          /\ scen.drains <= scen.sigs + 1

\* C11 witness: under clamp MaxSignals signals were drained by a single run of
\* the task, which left the knob at 1 with no alert and the event latch set.
C11_Witness ==
    /\ instance_arr[0].b_initialized
    /\ instance_arr[0].b_knob_allow_step_on
    /\ pc = "idle"
    /\ last.op = "task"
    /\ scen.sigs = MaxSignals
    /\ scen.drains = 1
    /\ instance_arr[0].knob_value = 1
    /\ ~instance_arr[0].b_alert_occured
    /\ instance_arr[0].b_event_occured

\* The rotation bits of the snapshot a task has just applied hold instance h.
RotationApplied(h) ==
    /\ TaskReturns
    /\ h \in Bits(last'.snap[ROTARY_ENCODER_FLAG_CW])
             \cup Bits(last'.snap[ROTARY_ENCODER_FLAG_CCW])

\* C12 as written: the alert latch of an initialised instance, once set, is
\* cleared by no step other than check_alert or init on that instance.
C12_AlertLatchedUntilChecked ==
    [][ \A h \in InstanceIndex :
          ( /\ instance_arr[h].b_initialized
            /\ instance_arr[h].b_alert_occured
            /\ ~instance_arr'[h].b_alert_occured )
          => (last'.op \in {"check_alert", "init"} /\ last'.h = h)
      ]_vars

\* C12 amended: the alert latch of an initialised instance, once set, stays set
\* through tog_switch, the read accessors, check_event, set_flags and a task
\* that applies no rotation to the instance; it is cleared only by check_alert
\* or init on the instance or by a later set/inc/dec of its knob (called
\* directly or by the task), and check_alert returns it and leaves it clear.
C12_AlertClearedOnlyBy ==
    [][ \A h \in InstanceIndex :
          /\ ( /\ instance_arr[h].b_initialized
               /\ instance_arr[h].b_alert_occured
               /\ ~instance_arr'[h].b_alert_occured )
             => \/ /\ last'.op \in {"check_alert", "init", "set_knob", "inc_knob", "dec_knob"}
                   /\ last'.h = h
                \/ RotationApplied(h)
          /\ ( /\ instance_arr[h].b_initialized
               /\ last'.op = "check_alert"
               /\ last'.h = h )
             => /\ ~instance_arr'[h].b_alert_occured
                /\ last'.ret = B2I(instance_arr[h].b_alert_occured)
      ]_vars

\* C12 witness: tog_switch has returned success on an instance whose alert
\* latch is still set.
C12_Witness ==
    /\ last.op = "tog_switch" /\ last.h = 0 /\ last.ret = 1
    /\ instance_arr[0].b_alert_occured

\* C13: every initialised instance configured with min <= max has
\* min <= knob_value <= max in every state, the state right after init
\* included.
C13_BoundsInEveryState ==
    \A i \in InstanceIndex :
        ( /\ instance_arr[i].b_initialized
          /\ instance_arr[i].knob_min_value <= instance_arr[i].knob_max_value )
        => WithinBounds(instance_arr[i])

\* The value a direct knob call stores before force_bounds corrects it.
StoredValue(r) ==
    IF last'.op = "set_knob" THEN last'.arg
    ELSE IF last'.op = "inc_knob" THEN ToInt16(r.knob_value + 1)
    ELSE ToInt16(r.knob_value - 1)

KnobOps == {"set_knob", "inc_knob", "dec_knob"}

\* C14: after every successful set_knob, inc_knob or dec_knob the alert latch
\* is set iff the value stored before correction was above max or below min,
\* whatever the latch held before; a call that crosses no limit leaves it
\* clear.
C14_AlertIsFreshResult ==
    [][ \A h \in InstanceIndex :
          LET r == instance_arr[h]
              v == StoredValue(r)
          IN  (last'.op \in KnobOps /\ last'.h = h /\ r.b_initialized)
              => /\ last'.ret = 1
                 /\ instance_arr'[h].b_alert_occured =
                       (v > r.knob_max_value \/ v < r.knob_min_value)
      ]_vars

\* C14 witness: dec_knob has returned success having crossed no limit, the
\* knob strictly inside its range and the alert latch clear.
C14_Witness ==
    /\ last.op = "dec_knob" /\ last.h = 0 /\ last.ret = 1
    /\ instance_arr[0].knob_min_value < instance_arr[0].knob_value
    /\ instance_arr[0].knob_value = instance_arr[0].knob_max_value - 1
    /\ ~instance_arr[0].b_alert_occured

\* C15: when the snapshot a task applies holds both the clockwise and the
\* counter-clockwise bit of an initialised instance with min <= max, a knob
\* strictly inside its range is unchanged, and under clamp with clockwise
\* positive a knob at max with min < max ends at max - 1.
C15_BothRotationsInOrder ==
    [][ \A h \in InstanceIndex :
          LET r  == instance_arr[h]
              r2 == instance_arr'[h]
          IN  ( /\ TaskReturns
                /\ r.b_initialized
                /\ r.knob_min_value <= r.knob_max_value
                /\ h \in Bits(last'.snap[ROTARY_ENCODER_FLAG_CW])
                /\ h \in Bits(last'.snap[ROTARY_ENCODER_FLAG_CCW]) )
              => /\ (r.knob_min_value < r.knob_value /\ r.knob_value < r.knob_max_value)
                      => r2.knob_value = r.knob_value
                 /\ ( /\ r.b_knob_allow_step_on
                      /\ r.b_knob_cw_rot_positive
                      /\ r.knob_value = r.knob_max_value
                      /\ r.knob_min_value < r.knob_max_value )
                      => r2.knob_value = r.knob_max_value - 1
      ]_vars

\* C16: a successful set_flags adds the bit of its instance to the flag word of
\* its kind and leaves the other bits, the other flag words and the instance
\* table as they were; no set_flags, successful or not, clears a bit or changes
\* the instance table; a bit of a flag word is cleared by the task's clearing
\* statements only.
C16_SignalSetsOneBit ==
    [][ /\ (last'.op = "set_flags" /\ last'.ret = 1)
           => \A k \in FlagKinds :
                 Bits(FlagWord(k)') =
                    IF k = last'.arg THEN Bits(FlagWord(k)) \cup {last'.h}
                                     ELSE Bits(FlagWord(k))
        /\ (last'.op = "set_flags")
           => /\ instance_arr' = instance_arr
              /\ \A k \in FlagKinds : Bits(FlagWord(k)) \subseteq Bits(FlagWord(k)')
        /\ \A k \in FlagKinds :
              ~(Bits(FlagWord(k)) \subseteq Bits(FlagWord(k)'))
              => (pc \in {"L277", "L278", "L279"} /\ pc' # pc)
      ]_vars

\* C16 witness: a counter-clockwise signal of instance 1 has succeeded and the
\* bits that were pending for instance 0 are still set beside it.
C16_Witness ==
    /\ last.op = "set_flags" /\ last.h = 1 /\ last.ret = 1
    /\ last.arg = ROTARY_ENCODER_FLAG_CCW
    /\ Bits(rotary_encoder_ccw_flags) = {0, 1}
    /\ Bits(rotary_encoder_cw_flags) = {0}
    /\ Bits(rotary_encoder_sw_flags) = {}

\* C17: set_knob on an initialised instance with min <= max stores a value
\* inside [min, max] unchanged, turns a value above max into max under clamp
\* and min under wrap, and a value below min into min under clamp and max
\* under wrap, however far outside the value lies.
C17_SetKnobLandsOnTarget ==
    [][ \A h \in InstanceIndex :
          LET r == instance_arr[h]
              v == last'.arg
          IN  ( /\ last'.op = "set_knob"
                /\ last'.h = h
                /\ r.b_initialized
                /\ r.knob_min_value <= r.knob_max_value )
              => /\ last'.ret = 1
                 /\ instance_arr'[h].knob_value =
                       IF v > r.knob_max_value
                       THEN (IF r.b_knob_allow_step_on THEN r.knob_max_value
                                                       ELSE r.knob_min_value)
                       ELSE IF v < r.knob_min_value
                       THEN (IF r.b_knob_allow_step_on THEN r.knob_min_value
                                                       ELSE r.knob_max_value)
                       ELSE v
      ]_vars

\* C17 witness: under wrap set_knob(INT16_MAX) on the range around zero has
\* returned success and the knob is at min.
C17_Witness ==
    /\ last.op = "set_knob" /\ last.h = 0 /\ last.ret = 1
    /\ last.arg = INT16_MAX
    /\ instance_arr[0].knob_max_value = KnobSpan
    /\ instance_arr[0].knob_min_value = 0 - KnobSpan
    /\ ~instance_arr[0].b_knob_allow_step_on
    /\ instance_arr[0].knob_value = instance_arr[0].knob_min_value

\* C18: inc_knob and dec_knob step in wrapping 16-bit arithmetic before
\* force_bounds runs. With max = INT16_MAX and min > INT16_MIN an inc_knob at
\* INT16_MAX wraps to INT16_MIN, is taken as below min, sets the alert and ends
\* at min under clamp, at max under wrap; with min = INT16_MIN and
\* max < INT16_MAX a dec_knob at INT16_MIN wraps to INT16_MAX, is taken as above
\* max, sets the alert and ends at max under clamp, at min under wrap.
C18_StepWrapsBeforeBounds ==
    [][ \A h \in InstanceIndex :
          LET r  == instance_arr[h]
              r2 == instance_arr'[h]
          IN  (r.b_initialized /\ last'.h = h)
              => /\ ( /\ last'.op = "inc_knob"
                      /\ r.knob_value = INT16_MAX
                      /\ r.knob_max_value = INT16_MAX
                      /\ r.knob_min_value > INT16_MIN )
                    => /\ ToInt16(r.knob_value + 1) = INT16_MIN
                       /\ r2.b_alert_occured
                       /\ r2.knob_value = IF r.b_knob_allow_step_on
                                          THEN r.knob_min_value
                                          ELSE r.knob_max_value
                 /\ ( /\ last'.op = "dec_knob"
                      /\ r.knob_value = INT16_MIN
                      /\ r.knob_min_value = INT16_MIN
                      /\ r.knob_max_value < INT16_MAX )
                    => /\ ToInt16(r.knob_value - 1) = INT16_MAX
                       /\ r2.b_alert_occured
                       /\ r2.knob_value = IF r.b_knob_allow_step_on
                                          THEN r.knob_max_value
                                          ELSE r.knob_min_value
      ]_vars

\* C18 witness: under clamp with max = INT16_MAX an inc_knob has stored
\* INT16_MIN and returned with the alert set and the knob at min, below max.
C18_Witness ==
    /\ last.op = "inc_knob" /\ last.h = 0 /\ last.ret = 1
    /\ last.arg = INT16_MIN
    /\ instance_arr[0].knob_max_value = INT16_MAX
    /\ instance_arr[0].b_knob_allow_step_on
    /\ instance_arr[0].b_alert_occured
    /\ instance_arr[0].knob_value = instance_arr[0].knob_min_value
    /\ instance_arr[0].knob_min_value < instance_arr[0].knob_max_value

\* C19 as written: when init ran while flag bits of the instance were pending
\* and no signal followed it, the task that then returns leaves the knob at 0,
\* the switch off and the event latch clear.
C19_ReinitDropsStagedSignals ==
    ( /\ instance_arr[0].b_initialized
      /\ scen.sigs = 0
      /\ scen.drains > 0 )
    => /\ instance_arr[0].knob_value = 0
       /\ instance_arr[0].switch_value = 0
       /\ ~instance_arr[0].b_event_occured

\* C19 amended: init resets the fields of the instance record and leaves the
\* three flag words as they are, so when init ran while a clockwise bit of the
\* instance was pending and no signal followed it, the next task applies the
\* bit: the knob is stepped from 0 and the event latch set.
C19_ReinitKeepsStagedSignals ==
    [][ /\ (last'.op = "init" /\ last'.ret = 1)
           => /\ flag_vars' = flag_vars
              /\ instance_arr'[last'.h].b_initialized
              /\ instance_arr'[last'.h].knob_value = 0
              /\ instance_arr'[last'.h].switch_value = 0
              /\ ~instance_arr'[last'.h].b_event_occured
              /\ ~instance_arr'[last'.h].b_alert_occured
        /\ ( /\ TaskReturns
             /\ instance_arr[0].b_initialized
             /\ scen.sigs = 0
             /\ scen.drains = 0
             /\ scen.pend > 0 )
           => /\ instance_arr'[0].knob_value = 1
              /\ instance_arr'[0].switch_value = 0
              /\ instance_arr'[0].b_event_occured
      ]_vars

\* C19 witness: the task has returned having applied a clockwise bit that was
\* pending when init ran, no signal made since: the knob is at 1 and the event
\* latch set.
C19_Witness ==
    /\ pc = "idle"
    /\ last.op = "task"
    /\ 0 \in Bits(last.snap[ROTARY_ENCODER_FLAG_CW])
    /\ scen.sigs = 0
    /\ scen.drains = 1
    /\ instance_arr[0].knob_value = 1
    /\ instance_arr[0].b_event_occured

\* C20: between two runs of the task a signal of an initialised instance whose
\* bit of that kind is already pending changes neither the flag words nor the
\* instance table, and the task that follows any number of signals of a kind
\* applies the kind once: the switch toggled once for the switch flag, the knob
\* one step for a rotation flag.
C20_RepeatedSignalsIdempotent ==
    [][ /\ ( /\ last'.op = "set_flags"
             /\ last'.ret = 1
             /\ last'.h \in Bits(FlagWord(last'.arg)) )
           => /\ flag_vars' = flag_vars
              /\ instance_arr' = instance_arr
        /\ \A h \in InstanceIndex :
              LET r   == instance_arr[h]
                  r2  == instance_arr'[h]
                  cw  == h \in Bits(last'.snap[ROTARY_ENCODER_FLAG_CW])
                  ccw == h \in Bits(last'.snap[ROTARY_ENCODER_FLAG_CCW])
                  sw  == h \in Bits(last'.snap[ROTARY_ENCODER_FLAG_SW])
              IN  (TaskReturns /\ r.b_initialized /\ scen.pend > 0)
                  => /\ r2.switch_value = IF sw THEN 1 - r.switch_value ELSE r.switch_value
                     /\ (cw /\ ~ccw) => r2.knob_value = SteppedValue(r, CwStep(r))
                     /\ (ccw /\ ~cw) => r2.knob_value = SteppedValue(r, 0 - CwStep(r))
                     /\ (~cw /\ ~ccw) => r2.knob_value = r.knob_value
      ]_vars

\* C20 witness: the task has returned after MaxRepeat switch signals and no
\* other were made since the init and before it, with the switch toggled once.
C20_Witness ==
    /\ instance_arr[0].b_initialized
    /\ pc = "idle"
    /\ last.op = "task"
    /\ Bits(last.snap[ROTARY_ENCODER_FLAG_SW]) = {0}
    /\ last.snap[ROTARY_ENCODER_FLAG_CW] = 0
    /\ last.snap[ROTARY_ENCODER_FLAG_CCW] = 0
    /\ scen.sigs = MaxRepeat
    /\ scen.drains = 1
    /\ instance_arr[0].switch_value = 1
    /\ instance_arr[0].knob_value = 0

====
